---- MODULE Spec2Model ----
(***************************************************************************)
(* Model of the simple_ipfs node: the supervisory loop IPFSRunner.run      *)
(* (src/app/main.py), its per-cycle operations maybe_check_and_start_ipfs, *)
(* process_command_file and maybe_generate_status_file, and the gateway    *)
(* object IPFSWrapper (src/ipfs_utils/ipfs.py) that brings the daemon up   *)
(* and adds/gets content.  The engine object the runner constructs at      *)
(* main.py:162 is taken to be the repository's IPFSWrapper: construction   *)
(* (ipfs.py:44-67) followed by maybe_start_ipfs with the two values the    *)
(* runner has just exported into the environment (main.py:159-160).        *)
(*                                                                         *)
(* Everything outside the process is environment: the daemon's command     *)
(* line tool (every command may succeed or fail, and prints what it        *)
(* prints), the config file and the command file (edited by an operator),  *)
(* the signals, and the clock.                                             *)
(***************************************************************************)
EXTENDS Integers, Sequences, FiniteSets, TLC

VARIABLES
  pc,                   \* position of run(): "loop", "queue", "publish", "sleep", "done",
                        \* or "crashed" when an exception left run()
  shutdown_requested,   \* IPFSRunner.shutdown_requested
  config_file,          \* content of _local_cache/ifps.ini
  command_file,         \* content of _local_cache/commands.txt: whether it exists, and its lines
  generated_cids,       \* content of _local_cache/generated_cids.txt: a sequence of lines
  has_ipfs,             \* hasattr(self, "ipfs")
  ipfs,                 \* the gateway object self.ipfs (fields of IPFSWrapper)
  repo,                 \* ~/.ipfs: whether its config and its swarm.key exist
  daemons,              \* number of live `ipfs daemon` processes this node spawned
  now,                  \* time.time()
  last_generated_time,  \* IPFSRunner.__last_generated_time
  cmds,                 \* history: daemon commands issued by ensure_started in this cycle
  ops,                  \* history: content operations issued in this cycle
  last_ensure,          \* history: how the cycle's maybe_check_and_start_ipfs returned
  pass,                 \* history: the process_command_file pass just made
  pub,                  \* history: the most recent maybe_generate_status_file call
  loop_state,           \* history: "WAITING_FOR_CONFIG" or "RUNNING", by the last ensure_started
  spawn_subproc,        \* IPFSRunner.spawn_subproc
  spawn_subproc_executed,  \* IPFSRunner.spawn_subproc_executed
  call                  \* history: the last call a client made on the gateway object

vars == <<pc, shutdown_requested, config_file, command_file, generated_cids,
          has_ipfs, ipfs, repo, daemons, now, last_generated_time,
          cmds, ops, last_ensure, pass, pub, loop_state,
          spawn_subproc, spawn_subproc_executed, call>>

-----------------------------------------------------------------------------
(* Program constants *)

CYCLE_INTERVAL == 30
PUBLISH_CYCLES == 10

ERROR_TAG == "Unknown"
None == "<None>"

-----------------------------------------------------------------------------
(* Bounds of the model *)

StartTime == 1000   \* the clock when run() starts
MaxCycles == 2      \* cycles whose end-of-cycle sleep the model follows
MaxDaemons == 2     \* daemon processes alive at once
MaxFileLines == 3   \* lines of the command file, header included

-----------------------------------------------------------------------------
(* Text files.  A line is the sequence of its space-separated fields; an   *)
(* empty field stands for an extra blank (leading, trailing or doubled).   *)

HeaderLine == <<"#", "Add", "CIDs", "here", "to", "process", "them.">>

RECURSIVE LStrip(_)
LStrip(line) ==
  IF line # <<>> /\ Head(line) = "" THEN LStrip(Tail(line)) ELSE line

RECURSIVE RStrip(_)
RStrip(line) ==
  IF line # <<>> /\ line[Len(line)] = ""
  THEN RStrip(SubSeq(line, 1, Len(line) - 1))
  ELSE line

\* str.strip()
Strip(line) == RStrip(LStrip(line))

\* str.split(): the non-empty fields
Split(line) == SelectSeq(line, LAMBDA t : t # "")

\* str.startswith("#") on a stripped line
StartsWithHash(line) == line # <<>> /\ line[1] = "#"

\* variant: only None counts as false (`x is None`)
NotNoneOnly(x) == x = None

\* `not x` for x a string or None: None and the empty string are false
Not(x) == x \in {None, ""}

\* str(x) as an f-string prints it
Str(x) == IF x = None THEN "None" ELSE x

\* dict with one key set
EmptyDict == [k \in {} |-> ""]
\* variants: the assignment is lost; the assignment drops the other keys
DictKeep(d, k, v) == d
DictOnly(d, k, v) == [x \in {k} |-> v]
DictSet(d, k, v) == [x \in DOMAIN d \cup {k} |-> IF x = k THEN v ELSE d[x]]

-----------------------------------------------------------------------------
(* The daemon's command line tool, as the process sees it.  run_command    *)
(* raises when the exit code is not 0 and otherwise returns the output.    *)

Peer == "12D3KooW"
Addr0 == "/ip4/127.0.0.1/tcp/4001"
Addr1 == "/ip4/10.0.0.5/tcp/4001"
Agent == "kubo/0.32"

\* An output of `ipfs id`: the exit status, whether stdout parses as JSON,
\* and the JSON object (the keys it has and their values).
IdOut(exit_ok, json_ok, keys, id, addrs) ==
  [exit_ok |-> exit_ok, json_ok |-> json_ok, keys |-> keys,
   ID |-> id, Addresses |-> addrs, AgentVersion |-> Agent]

IdKeys == {"ID", "Addresses", "AgentVersion"}

IdOutputs ==
  { IdOut(FALSE, FALSE, {}, "", <<>>),                         \* exit code not 0
    IdOut(TRUE, FALSE, {}, "", <<>>),                          \* not JSON
    IdOut(TRUE, TRUE, IdKeys, Peer, <<Addr0, Addr1>>),         \* complete
    IdOut(TRUE, TRUE, IdKeys, "", <<Addr0, Addr1>>),           \* "ID": ""
    IdOut(TRUE, TRUE, IdKeys, Peer, <<Addr0>>),                \* one address
    IdOut(TRUE, TRUE, IdKeys \ {"ID"}, "", <<Addr0, Addr1>>),
    IdOut(TRUE, TRUE, IdKeys \ {"Addresses"}, Peer, <<>>),
    IdOut(TRUE, TRUE, IdKeys \ {"AgentVersion"}, Peer, <<Addr0, Addr1>>) }

\* An output of `ipfs swarm connect`: the exit status and the lower-cased
\* words of stdout that the caller looks for.
ConnectOutputs ==
  [exit_ok : {TRUE}, words : SUBSET {"connect", "success"}]
    \cup {[exit_ok |-> FALSE, words |-> {}]}

IdComplete == IdOut(TRUE, TRUE, IdKeys, Peer, <<Addr0, Addr1>>)
ConnectSuccess == [exit_ok |-> TRUE, words |-> {"connect", "success"}]

\* What the environment answers during one bring-up attempt: whether the
\* swarm key could be decoded and written, the exit status of init and of
\* bootstrap rm, the two outputs of `ipfs id`, whether the daemon process
\* could be spawned, and the output of swarm connect.
StartOutcome(k, i, b, p, s, g, c) ==
  [key_write |-> k, init |-> i, bootstrap_rm |-> b, probe |-> p, spawn |-> s,
   get_id |-> g, connect |-> c]

\* the attempt in which every command succeeds
HealthyStart ==
  StartOutcome(TRUE, TRUE, TRUE, IdComplete, TRUE, IdComplete, ConnectSuccess)

\* an answer to a command that is not reached is left at its healthy value
StartOutcomes ==
  { StartOutcome(FALSE, TRUE, TRUE, IdComplete, TRUE, IdComplete, ConnectSuccess),
    StartOutcome(TRUE, FALSE, TRUE, IdComplete, TRUE, IdComplete, ConnectSuccess) }
  \cup { StartOutcome(TRUE, TRUE, b, p, FALSE, IdComplete, ConnectSuccess) :
           b \in BOOLEAN, p \in IdOutputs \ {IdComplete} }
  \cup { StartOutcome(TRUE, TRUE, b, p, TRUE, g, ConnectSuccess) :
           b \in BOOLEAN, p \in IdOutputs, g \in IdOutputs }
  \cup { StartOutcome(TRUE, TRUE, b, p, TRUE, g, c) :
           b \in BOOLEAN, p \in {IdComplete, IdOut(FALSE, FALSE, {}, "", <<>>)},
           g \in IdOutputs, c \in ConnectOutputs }

-----------------------------------------------------------------------------
(* IPFSWrapper *)

\* IPFSWrapper.__init__
NewIPFSWrapper ==
  [started |-> FALSE, address |-> None, id |-> None, agent |-> None,
   uploaded |-> EmptyDict, downloaded |-> EmptyDict]

\* The running result of maybe_start_ipfs: the object, the repository, the
\* daemon processes, the commands issued so far, and `ret`, the value
\* returned once the method has returned ("" before).
Returned(st, value) == [st EXCEPT !.ret = value]
Issued(st, cmd, res) ==
  [st EXCEPT !.cmds = Append(@, [cmd |-> cmd, res |-> res, words |-> {}])]
\* swarm connect, with the words it printed
IssuedConnect(st, out) ==
  [st EXCEPT !.cmds = Append(@, [cmd |-> "connect",
                                 res |-> IF out.exit_ok THEN "returned" ELSE "fail",
                                 words |-> out.words])]

\* variant: a failure of the key write or of init is only logged
InitRepoStepGoesOn(st, o) ==
  IF st.repo.initialized THEN st
  ELSE IF ~o.key_write THEN Issued(st, "swarm_key", "fail")
  ELSE LET k == [Issued(st, "swarm_key", "ok") EXCEPT !.repo.swarm_key = TRUE]
       IN IF ~o.init THEN Issued(k, "init", "fail")
          ELSE [Issued(k, "init", "ok") EXCEPT !.repo.initialized = TRUE]

\* variant: the key is written only when swarm.key does not exist yet
InitRepoStepKeyOnce(st, o) ==
  IF st.repo.initialized THEN st
  ELSE IF ~o.key_write \/ st.repo.swarm_key
    THEN Returned(Issued(st, "swarm_key", "fail"), "False")
  ELSE LET k == [Issued(st, "swarm_key", "ok") EXCEPT !.repo.swarm_key = TRUE]
       IN IF ~o.init
            THEN Returned(Issued(k, "init", "fail"), "False")
            ELSE [Issued(k, "init", "ok") EXCEPT !.repo.initialized = TRUE]

\* lines 282-301: an uninitialized repository gets the swarm key and init
InitRepoStep(st, o) ==
  IF st.repo.initialized THEN st
  ELSE IF ~o.key_write
    THEN Returned(Issued(st, "swarm_key", "fail"), "False")
  ELSE LET k == [Issued(st, "swarm_key", "ok") EXCEPT !.repo.swarm_key = TRUE]
       IN IF ~o.init
            THEN Returned(Issued(k, "init", "fail"), "False")
            ELSE [Issued(k, "init", "ok") EXCEPT !.repo.initialized = TRUE]

\* lines 303-307: remove the public bootstrap peers; a failure is logged
BootstrapRmStep(st, o) ==
  IF st.ret # "" THEN st
  ELSE IF o.bootstrap_rm
    THEN Issued(st, "bootstrap_rm", "ok")
    ELSE Issued(st, "bootstrap_rm", "fail")

\* lines 312-315: the fields are assigned one by one until a lookup raises
ProbeFields(self, out) ==
  IF ~out.exit_ok \/ ~out.json_ok \/ "ID" \notin out.keys THEN self
  ELSE LET a == [self EXCEPT !.id = out.ID]
       IN IF "Addresses" \notin out.keys \/ Len(out.Addresses) < 2 THEN a
          ELSE LET b == [a EXCEPT !.address = out.Addresses[2]]
               IN IF "AgentVersion" \notin out.keys THEN b
                  ELSE [b EXCEPT !.agent = out.AgentVersion]

ProbeOk(out) ==
  /\ out.exit_ok /\ out.json_ok /\ out.keys = IdKeys
  /\ Len(out.Addresses) >= 2

\* lines 309-325: probe the daemon; spawn it when the probe raised
ProbeAndSpawnStep(st, o) ==
  IF st.ret # "" THEN st
  ELSE LET p == [st EXCEPT !.self = ProbeFields(@, o.probe)]
       IN IF ProbeOk(o.probe) THEN Issued(p, "probe", "ok")
          ELSE LET q == Issued(p, "probe", "fail")
               IN IF o.spawn
                    THEN [Issued(q, "daemon", "ok") EXCEPT !.daemons = @ + 1]
                    ELSE Returned(Issued(q, "daemon", "fail"), "None")

\* lines 243-256, get_id: data.get with ERROR_TAG as the default
DictGet(out, key, default) == IF key \in out.keys THEN out[key] ELSE default

GetIdRaises(out) ==
  \/ ~out.exit_ok
  \/ ~out.json_ok
  \/ Len(DictGet(out, "Addresses", <<ERROR_TAG, ERROR_TAG>>)) < 2

GetIdFields(self, out) ==
  IF ~out.exit_ok \/ ~out.json_ok THEN self
  ELSE LET a == [self EXCEPT !.id = DictGet(out, "ID", ERROR_TAG)]
           addrs == DictGet(out, "Addresses", <<ERROR_TAG, ERROR_TAG>>)
       IN IF Len(addrs) < 2 THEN a
          ELSE [a EXCEPT !.address = addrs[2],
                         !.agent = DictGet(out, "AgentVersion", ERROR_TAG)]

\* variant: the word "success" is not looked for
ConnectMentioned(words) == "connect" \in words

\* line 332: "connect" in result.lower() and "success" in result.lower()
ConnectIndicatesSuccess(words) == "connect" \in words /\ "success" \in words

\* lines 327-340: identity, then the relay; only a success text sets started
IdentifyAndConnectStep(st, o) ==
  IF st.ret # "" THEN st
  ELSE LET g == [st EXCEPT !.self = GetIdFields(@, o.get_id)]
       IN IF GetIdRaises(o.get_id)
            THEN Returned(Issued(g, "get_id", "fail"), "False")
          ELSE IF g.self.id = ERROR_TAG    \* the assert of line 329
            THEN Returned(Issued(g, "get_id", "unknown"), "False")
          ELSE LET i == Issued(g, "get_id", "ok")
                   c == IssuedConnect(i, o.connect)
               IN IF ~o.connect.exit_ok THEN Returned(c, "False")
                  ELSE IF ConnectIndicatesSuccess(o.connect.words)
                    THEN Returned([c EXCEPT !.self.started = TRUE], "True")
                  ELSE Returned(c, "False")

\* IPFSWrapper.maybe_start_ipfs
maybe_start_ipfs(self, base64_swarm_key, ipfs_relay, rp, dm, o) ==
  LET st0 == [self |-> self, repo |-> rp, daemons |-> dm,
              cmds |-> <<>>, ret |-> ""]
  IN IF self.started THEN Returned(st0, "None")
     ELSE IF Not(base64_swarm_key) \/ Not(ipfs_relay)     \* line 273
       THEN Returned(st0, "False")
     ELSE IdentifyAndConnectStep(
            ProbeAndSpawnStep(
              BootstrapRmStep(InitRepoStep(st0, o), o), o), o)

-----------------------------------------------------------------------------
(* The config file ifps.ini, as configparser reads it *)

KeyB64 == "L2tleS9zd2FybS9wc2s="
Relay == "/ip4/10.0.0.1/tcp/4001/p2p/relay"
RelayPct == "/ip6zone/eth0%x/ip6/fe80::1/tcp/4001/p2p/relay"

Config(kind, key, relay) == [kind |-> kind, key |-> key, relay |-> relay]

\* a field of the [ipfs] section: absent (get returns None), empty, or set
ConfigFiles ==
  { Config("missing", None, None),       \* no such file
    Config("malformed", None, None),     \* config.read raises
    Config("nosection", None, None),     \* no [ipfs] section
    Config("ok", "", ""),
    Config("ok", None, Relay),
    Config("ok", KeyB64, ""),
    Config("ok", "", Relay),
    Config("ok", KeyB64, None),
    Config("ok", KeyB64, Relay),
    Config("ok", KeyB64, RelayPct) }

\* lines 152-153: SectionProxy.get of a ConfigParser with the default
\* interpolation raises InterpolationSyntaxError on a value holding a `%`
\* that is followed by neither `%` nor `(`
GetRaises(cfg) == cfg.kind = "ok" /\ RelayPct \in {cfg.key, cfg.relay}

\* line 155: `not swarm_key or not ipfs_relay` is false
ConfigComplete(cfg) == cfg.kind = "ok" /\ ~(Not(cfg.key) \/ Not(cfg.relay))

-----------------------------------------------------------------------------
(* IPFSRunner.maybe_check_and_start_ipfs, lines 120-170 *)

\* variant: no fast path
AlreadyStartedNever == FALSE

\* line 133
AlreadyStarted == has_ipfs /\ ipfs.started

NoBringUp(path, result) ==
  [has_ipfs |-> has_ipfs, self |-> ipfs, repo |-> repo, daemons |-> daemons,
   cmds |-> <<>>, path |-> path, result |-> result]

BringUp(o) ==
  \* lines 159-165: a new engine object, started from the environment
  LET st == maybe_start_ipfs(NewIPFSWrapper, config_file.key,
                             config_file.relay, repo, daemons, o)
  IN [has_ipfs |-> TRUE, self |-> st.self, repo |-> st.repo,
      daemons |-> st.daemons, cmds |-> st.cmds,
      path |-> "bring_up", result |-> st.self.started]

\* variant: the config file is looked at before the started flag
maybe_check_and_start_ipfs_config_first(o) ==
  IF config_file.kind = "missing" THEN NoBringUp("no_file", FALSE)
  ELSE IF config_file.kind = "malformed" THEN NoBringUp("read_error", FALSE)
  ELSE IF config_file.kind = "nosection" THEN NoBringUp("no_section", FALSE)
  ELSE IF GetRaises(config_file) THEN NoBringUp("raised", FALSE)
  ELSE IF ~ConfigComplete(config_file) THEN NoBringUp("missing_values", FALSE)
  ELSE IF AlreadyStarted THEN NoBringUp("already_started", TRUE)
  ELSE BringUp(o)

maybe_check_and_start_ipfs(o) ==
  IF AlreadyStarted THEN NoBringUp("already_started", TRUE)
  ELSE IF config_file.kind = "missing" THEN NoBringUp("no_file", FALSE)
  ELSE IF config_file.kind = "malformed" THEN NoBringUp("read_error", FALSE)
  ELSE IF config_file.kind = "nosection" THEN NoBringUp("no_section", FALSE)
  ELSE IF GetRaises(config_file) THEN NoBringUp("raised", FALSE)
  ELSE IF ~ConfigComplete(config_file) THEN NoBringUp("missing_values", FALSE)
  ELSE BringUp(o)

-----------------------------------------------------------------------------
(* The gateway's content operations *)

TextName == "status.yaml"
PickleName == "model.pkl"

\* the part of a file name from its last dot on
Extension(name) ==
  CASE name = TextName -> ".yaml"
    [] name = PickleName -> ".pkl"
    [] OTHER -> ""

\* IPFSRunner.is_text_file / is_pickle_file, lines 104-117
is_text_file(path) == Extension(path[2]) \in {".txt", ".json", ".yaml", ".yml"}
is_pickle_file(path) == Extension(path[2]) \in {".pkl", ".pickle"}

\* What the environment answers while one queue entry is processed: the
\* availability probe ("True", "False" or "raise"), the exit status of pin
\* and of get, the listing of the fetched folder, and whether the handling
\* of a fetched binary file (getsize, pickle.load, json.dumps) goes through.
EntryOutcome(a, p, g, f, post) ==
  [avail |-> a, pin_ok |-> p, get_ok |-> g, folder |-> f, post_ok |-> post]

EntryOutcomes ==
  { EntryOutcome("raise", TRUE, TRUE, <<>>, TRUE),
    EntryOutcome("False", TRUE, TRUE, <<>>, TRUE),
    EntryOutcome("True", FALSE, TRUE, <<>>, TRUE),
    EntryOutcome("True", TRUE, FALSE, <<>>, TRUE),
    EntryOutcome("True", TRUE, TRUE, <<>>, TRUE),
    EntryOutcome("True", TRUE, TRUE, <<TextName, PickleName>>, TRUE),
    EntryOutcome("True", TRUE, TRUE, <<TextName>>, TRUE),
    EntryOutcome("True", TRUE, TRUE, <<PickleName>>, TRUE),
    EntryOutcome("True", TRUE, TRUE, <<PickleName>>, FALSE) }

\* variant: any non-empty folder will do
SomeEntry(folder_contents) == Len(folder_contents) >= 1

\* line 209: exactly one entry in the fetched folder
OneEntry(folder_contents) == Len(folder_contents) = 1

\* IPFSWrapper.pin_add, lines 217-222: run_command raises on a non-zero exit
pin_add(self, cid, exit_ok) ==
  [self |-> self, ops |-> {"pin"}, raised |-> ~exit_ok]

\* IPFSWrapper.get_file, lines 183-214, with local_folder=None: the object
\* afterwards, the operations issued, whether it raised, and the path
get_file(self, cid, pin_flag, e) ==
  LET pinned == IF pin_flag THEN {"pin"} ELSE {}
  IN IF pin_flag /\ pin_add(self, cid, e.pin_ok).raised   \* line 198
       THEN [self |-> self, ops |-> pinned, raised |-> TRUE, path |-> <<>>]
     ELSE IF ~e.get_ok
       THEN [self |-> self, ops |-> pinned \cup {"get"}, raised |-> TRUE,
             path |-> <<>>]
     ELSE IF ~OneEntry(e.folder)
       THEN [self |-> self, ops |-> pinned \cup {"get"}, raised |-> TRUE,
             path |-> <<>>]
     ELSE LET out_local_filename == <<cid, e.folder[1]>>
          IN [self |-> [self EXCEPT
                          !.downloaded = DictSet(@, cid, out_local_filename)],
              ops |-> pinned \cup {"get"}, raised |-> FALSE,
              path |-> out_local_filename]

\* An output of `ipfs add -q -w`: the printed lines (hashes)
AddOutputs ==
  { <<>>, <<"QmDir">>, <<"QmFile", "QmDir">>, <<"QmFile", "QmMid", "QmDir2">> }

\* str.split("\n") of the stripped output: the empty string gives [""]
SplitNewline(output) == IF output = <<>> THEN <<"">> ELSE output

\* variant: the first line is taken
FirstLine(lines) == lines[1]

\* line 178: lines[-1]
LastLine(lines) == lines[Len(lines)]

\* IPFSWrapper.add_file, lines 162-180
add_file(self, file_path, a) ==
  IF ~a.exit_ok THEN [self |-> self, raised |-> TRUE, cid |-> None]
  ELSE LET lines == SplitNewline(a.output)
       IN IF Len(lines) = 0
            THEN [self |-> self, raised |-> TRUE, cid |-> None]
            ELSE LET folder_cid == LastLine(lines)
                 IN [self |-> [self EXCEPT
                                 !.uploaded = DictSet(@, folder_cid, file_path)],
                     raised |-> FALSE, cid |-> folder_cid]

TmpYaml == "/tmp/tmpfile.yaml"

\* What the environment answers to one add of an object
AddOutcomes ==
  { [dump_ok |-> FALSE, exit_ok |-> TRUE, output |-> <<>>],
    [dump_ok |-> TRUE, exit_ok |-> FALSE, output |-> <<>>] }
  \cup { [dump_ok |-> TRUE, exit_ok |-> TRUE, output |-> out] : out \in AddOutputs }

\* IPFSWrapper.add_yaml, lines 131-144: any exception gives None
add_yaml(self, a) ==
  IF ~a.dump_ok THEN [self |-> self, cid |-> None, ops |-> {}]
  ELSE LET r == add_file(self, TmpYaml, a)
       IN IF r.raised THEN [self |-> self, cid |-> None, ops |-> {"add"}]
          ELSE [self |-> r.self, cid |-> r.cid, ops |-> {"add"}]

\* What `ipfs pin ls --type=recursive` may print
PinListings ==
  { <<>>,
    << <<"QmDirA", "recursive">> >>,
    << <<"", "QmDirA", "recursive", "">>, <<>>, <<"QmDirB", "recursive">> >> }

\* IPFSWrapper.list_pins, lines 226-240: the first field of every line that
\* is not blank
list_pins(self, exit_ok, output) ==
  LET stripped == [i \in 1..Len(output) |-> Strip(output[i])]
      kept == SelectSeq(stripped, LAMBDA l : l # <<>>)
  IN [self |-> self, raised |-> ~exit_ok,
      pins |-> IF exit_ok THEN [i \in 1..Len(kept) |-> Split(kept[i])[1]]
               ELSE <<>>]

\* no call made yet
NoCall ==
  [op |-> "none", cid |-> None, file |-> None, pin |-> FALSE,
   answer |-> None, raised |-> FALSE, ret_cid |-> None, ret_path |-> <<>>,
   ret_pins |-> <<>>, content |-> None, ops |-> {}]

-----------------------------------------------------------------------------
(* IPFSRunner.process_command_file, lines 173-250 *)

File(exists, lines) == [exists |-> exists, lines |-> lines]

\* line 192: the stripped lines that are neither blank nor comments
ParseLines(file_lines) ==
  LET stripped == [i \in 1..Len(file_lines) |-> Strip(file_lines[i])]
  IN SelectSeq(stripped, LAMBDA l : l # <<>> /\ ~StartsWithHash(l))

\* lines 206-210
EntryCid(line) == Split(line)[1]
EntrySecret(line) == IF Len(Split(line)) > 1 THEN Split(line)[2] ELSE None

\* lines 224-237: handling of the fetched file; errors of reading a text
\* file are caught where they occur, the others reach the entry's handler
PostFetchRaises(file_path, e) == ~is_text_file(file_path) /\ ~e.post_ok

\* lines 205-239, one entry: `acc` carries the object, failed_lines, the
\* operations issued and, per entry, how its processing ended
ProcessEntry(acc, line, e) ==
  LET cid == EntryCid(line)
      checked == [acc EXCEPT !.ops = @ \cup {"is_cid_available"}]
  IN IF e.avail = "raise"
       THEN [checked EXCEPT !.log = Append(@, "avail_raised")]
     ELSE IF e.avail = "False"
       THEN [checked EXCEPT !.failed_lines = Append(@, line),
                            !.log = Append(@, "unavailable")]
     ELSE LET r == get_file(checked.self, cid, TRUE, e)
              got == [checked EXCEPT !.self = r.self, !.ops = @ \cup r.ops]
          IN IF r.raised
               THEN [got EXCEPT !.log = Append(@, "fetch_raised")]
             ELSE IF PostFetchRaises(r.path, e)
               THEN [got EXCEPT !.log = Append(@, "fetched_then_raised")]
             ELSE [got EXCEPT !.log = Append(@, "fetched")]

\* variant: an exception in one entry ends the loop
RECURSIVE ProcessLinesUntilRaise(_, _, _, _)
ProcessLinesUntilRaise(lines, outs, i, acc) ==
  IF i > Len(lines) THEN acc
  ELSE LET next == ProcessEntry(acc, lines[i], outs[i])
       IN IF next.log[Len(next.log)] \in
               {"avail_raised", "fetch_raised", "fetched_then_raised"}
            THEN next
            ELSE ProcessLinesUntilRaise(lines, outs, i + 1, next)

\* the for loop of line 205; the handler of line 238 ends one entry and the
\* loop goes on with the next
RECURSIVE ProcessLines(_, _, _, _)
ProcessLines(lines, outs, i, acc) ==
  IF i > Len(lines) THEN acc
  ELSE ProcessLines(lines, outs, i + 1, ProcessEntry(acc, lines[i], outs[i]))

\* variant: the file is cleared, nothing is written back
ClearedFile(failed_lines) == File(TRUE, <<HeaderLine>>)

\* lines 245-248: the header, then the lines that failed
RewrittenFile(failed_lines) == File(TRUE, <<HeaderLine>> \o failed_lines)

\* `appended`: the lines an external writer added while the pass ran
NoPass == [kind |-> "none", entries |-> <<>>, log |-> <<>>, appended |-> <<>>]

\* the whole method: the file and the object afterwards, and what was done
process_command_file(read_ok, outs) ==
  IF ~command_file.exists                      \* lines 182-186
    THEN [file |-> File(TRUE, <<HeaderLine>>), self |-> ipfs, ops |-> {},
          pass |-> [NoPass EXCEPT !.kind = "no_file"]]
  ELSE IF ~read_ok                             \* lines 193-195
    THEN [file |-> command_file, self |-> ipfs, ops |-> {},
          pass |-> [NoPass EXCEPT !.kind = "read_error"]]
  ELSE LET lines == ParseLines(command_file.lines)
       IN IF lines = <<>>                      \* lines 197-199
            THEN [file |-> command_file, self |-> ipfs, ops |-> {},
                  pass |-> [NoPass EXCEPT !.kind = "no_entries"]]
            ELSE LET acc == ProcessLines(lines, outs, 1,
                              [self |-> ipfs, failed_lines |-> <<>>,
                               ops |-> {}, log |-> <<>>])
                 IN [file |-> RewrittenFile(acc.failed_lines),
                     self |-> acc.self, ops |-> acc.ops,
                     pass |-> [NoPass EXCEPT !.kind = "rewritten",
                                             !.entries = lines,
                                             !.log = acc.log]]

-----------------------------------------------------------------------------
(* IPFSRunner.maybe_generate_status_file, lines 253-304 *)

Secrets == {"9f3a"}

\* variant: the window is one cycle long
PublishNotDueOneCycle ==
  /\ now - last_generated_time < CYCLE_INTERVAL
  /\ last_generated_time > 0

\* line 262
PublishNotDue ==
  /\ now - last_generated_time < CYCLE_INTERVAL * PUBLISH_CYCLES
  /\ last_generated_time > 0

\* line 301
LedgerLine(cid, secret) == <<cid, Str(secret)>>

\* variant: whatever add_yaml returned is written
CidAlways(cid) == TRUE

\* line 297: `cid is not None`
CidObtained(cid) == cid # None

maybe_generate_status_file(secured, s, a, write_ok) ==
  IF PublishNotDue
    THEN [last |-> last_generated_time, self |-> ipfs, ops |-> {},
          ledger |-> generated_cids, pub |-> "not_due"]
  ELSE LET secret == IF secured THEN s ELSE None
           r == add_yaml(ipfs, a)
           res == [last |-> now, self |-> r.self, ops |-> r.ops,
                   ledger |-> generated_cids, pub |-> "failed"]
       IN IF ~CidObtained(r.cid) THEN res
          ELSE IF ~write_ok THEN [res EXCEPT !.pub = "ledger_error"]
          ELSE [res EXCEPT
                  !.ledger = Append(generated_cids, LedgerLine(r.cid, secret)),
                  !.pub = "published"]

-----------------------------------------------------------------------------
(* IPFSRunner.run, lines 307-334, and the state after IPFSRunner.__init__ *)

NoEnsure == [path |-> "none", result |-> FALSE]

\* variant: the cycle goes on whatever maybe_check_and_start_ipfs returned
AfterEnsureAlways(ipfs_started) == "queue"

\* line 319: what follows maybe_check_and_start_ipfs in the cycle
AfterEnsure(ipfs_started) == IF ipfs_started THEN "queue" ELSE "sleep"

\* the repository directory as the process may find it
Repos ==
  { [initialized |-> FALSE, swarm_key |-> FALSE],
    [initialized |-> TRUE, swarm_key |-> TRUE] }

Init ==
  /\ pc = "loop"
  /\ shutdown_requested = FALSE
  /\ config_file \in ConfigFiles \ {Config("missing", None, None)}   \* init_config
  /\ command_file = File(TRUE, <<HeaderLine>>)                        \* init_config
  /\ generated_cids = <<>>
  /\ has_ipfs = FALSE
  /\ ipfs = NewIPFSWrapper
  /\ repo \in Repos
  /\ daemons = 0
  /\ now = StartTime
  /\ last_generated_time = 0
  /\ cmds = <<>>
  /\ ops = {}
  /\ last_ensure = NoEnsure
  /\ pass = NoPass
  /\ pub = "none"
  /\ loop_state = "WAITING_FOR_CONFIG"
  /\ spawn_subproc = FALSE
  /\ spawn_subproc_executed = FALSE
  /\ call = NoCall

\* variant: the flag is not looked at
LoopTestAlways == TRUE

\* line 316: `while not self.shutdown_requested`
LoopTest == ~shutdown_requested

\* lines 316-319: the loop test and maybe_check_and_start_ipfs, the daemon
\* answering with one of `outcomes`
EnsureStarted(outcomes) ==
  /\ pc = "loop"
  /\ LoopTest
  /\ \E o \in outcomes :
       LET r == maybe_check_and_start_ipfs(o)
       IN /\ r.daemons <= MaxDaemons
          /\ has_ipfs' = r.has_ipfs
          /\ ipfs' = r.self
          /\ repo' = r.repo
          /\ daemons' = r.daemons
          /\ cmds' = r.cmds
          /\ last_ensure' = [path |-> r.path, result |-> r.result]
          /\ loop_state' = IF r.result THEN "RUNNING" ELSE "WAITING_FOR_CONFIG"
          /\ pc' = IF r.path = "raised" THEN "crashed"   \* nothing catches it
                   ELSE AfterEnsure(r.result)
  /\ UNCHANGED <<shutdown_requested, config_file, command_file, generated_cids,
                 now, last_generated_time, ops, pass, pub, spawn_subproc,
                 spawn_subproc_executed, call>>

\* lines 316, 333: the loop test with the flag set
Exit ==
  /\ pc = "loop"
  /\ ~LoopTest
  /\ pc' = "done"
  /\ UNCHANGED <<shutdown_requested, config_file, command_file, generated_cids,
                 has_ipfs, ipfs, repo, daemons, now, last_generated_time,
                 cmds, ops, last_ensure, pass, pub, loop_state,
                 spawn_subproc, spawn_subproc_executed, call>>

\* line 320, each entry answered with one of `outcomes`
ProcessCommandFile(outcomes) ==
  /\ pc = "queue"
  /\ \E read_ok \in BOOLEAN :
     \E outs \in [1..(IF command_file.exists /\ read_ok
                        THEN Len(ParseLines(command_file.lines))
                        ELSE 0) -> outcomes] :
       LET r == process_command_file(read_ok, outs)
       IN /\ command_file' = r.file
          /\ ipfs' = r.self
          /\ ops' = ops \cup {"process_command_file"} \cup r.ops
          /\ pass' = r.pass
  /\ pc' = "publish"
  /\ UNCHANGED <<shutdown_requested, config_file, generated_cids, has_ipfs,
                 repo, daemons, now, last_generated_time, cmds, last_ensure,
                 pub, loop_state, spawn_subproc, spawn_subproc_executed, call>>

\* What one call of maybe_generate_status_file meets: the draw of
\* random.choice (line 269), the uuid prefix (line 284), the answer to the
\* add, and whether generated_cids.txt can be appended to (lines 299-301)
PublishOutcome(secured, s, a, write_ok) ==
  [secured |-> secured, secret |-> s, add |-> a, write_ok |-> write_ok]

PublishOutcomes ==
  { PublishOutcome(secured, s, a, write_ok) :
      secured \in BOOLEAN, s \in Secrets, a \in AddOutcomes,
      write_ok \in BOOLEAN }

\* lines 321-330: the status file, the call meeting one of `outcomes`, then
\* once the auxiliary process
GenerateStatusFile(outcomes) ==
  /\ pc = "publish"
  /\ \E o \in outcomes :
       LET r == maybe_generate_status_file(o.secured, o.secret, o.add,
                                           o.write_ok)
       IN /\ last_generated_time' = r.last
          /\ ipfs' = r.self
          /\ generated_cids' = r.ledger
          /\ ops' = ops \cup {"maybe_generate_status_file"} \cup r.ops
          /\ pub' = r.pub
  /\ spawn_subproc_executed' = (spawn_subproc_executed \/ spawn_subproc)
  /\ pass' = NoPass
  /\ pc' = "sleep"
  /\ UNCHANGED <<shutdown_requested, config_file, command_file, has_ipfs,
                 repo, daemons, now, cmds, last_ensure, loop_state,
                 spawn_subproc, call>>

\* lines 331-332: the end of the cycle; the cycle's histories start afresh.
\* The sleep of the last cycle, after a signal, is always followed.
Sleep ==
  /\ pc = "sleep"
  /\ IF shutdown_requested THEN TRUE
     ELSE now - StartTime < MaxCycles * CYCLE_INTERVAL
  /\ now' = now + CYCLE_INTERVAL
  /\ pc' = "loop"
  /\ cmds' = <<>>
  /\ ops' = {}
  /\ last_ensure' = NoEnsure
  /\ UNCHANGED <<shutdown_requested, config_file, command_file, generated_cids,
                 has_ipfs, ipfs, repo, daemons, last_generated_time, pass, pub,
                 loop_state, spawn_subproc, spawn_subproc_executed, call>>

\* the time the blocking calls of one cycle may take on top of the sleep
\* (run_command waits for the tool without a timeout): just under and just
\* enough to fill, with the sleep, the window of line 262
Stalls ==
  { CYCLE_INTERVAL * PUBLISH_CYCLES - CYCLE_INTERVAL - 1,
    CYCLE_INTERVAL * PUBLISH_CYCLES - CYCLE_INTERVAL }

\* lines 316-332 of a cycle whose calls were slow: the next cycle starts
\* later than one sleep after this one started
SlowCycle ==
  /\ pc = "sleep"
  /\ now - StartTime < MaxCycles * CYCLE_INTERVAL
  /\ \E d \in Stalls : now' = now + d + CYCLE_INTERVAL
  /\ pc' = "loop"
  /\ cmds' = <<>>
  /\ ops' = {}
  /\ last_ensure' = NoEnsure
  /\ UNCHANGED <<shutdown_requested, config_file, command_file, generated_cids,
                 has_ipfs, ipfs, repo, daemons, last_generated_time, pass, pub,
                 loop_state, spawn_subproc, spawn_subproc_executed, call>>

-----------------------------------------------------------------------------
(* The environment.  The process reads ifps.ini only in                    *)
(* maybe_check_and_start_ipfs and commands.txt only in                     *)
(* process_command_file, so an edit made at any moment is seen as if made  *)
(* just before the next read: the operator's edits are placed there.       *)

\* IPFSRunner.handle_shutdown, lines 96-102, on SIGINT or SIGTERM
HandleShutdown ==
  /\ pc \notin {"done", "crashed"}
  /\ ~shutdown_requested
  /\ shutdown_requested' = TRUE
  /\ UNCHANGED <<pc, config_file, command_file, generated_cids, has_ipfs,
                 ipfs, repo, daemons, now, last_generated_time, cmds, ops,
                 last_ensure, pass, pub, loop_state, spawn_subproc,
                 spawn_subproc_executed, call>>

\* the operator edits, empties or removes ifps.ini
EditConfig ==
  /\ pc = "loop"
  /\ \E c \in ConfigFiles \ {config_file} : config_file' = c
  /\ UNCHANGED <<pc, shutdown_requested, command_file, generated_cids,
                 has_ipfs, ipfs, repo, daemons, now, last_generated_time,
                 cmds, ops, last_ensure, pass, pub, loop_state, spawn_subproc,
                 spawn_subproc_executed, call>>

\* the lines an operator adds to commands.txt
ExternalLines == { <<"bafy1">>, <<"", "bafy2", "key2", "">> }

\* a comment an operator left in commands.txt
NoteLine == <<"", "#", "note">>

\* the operator appends a line to commands.txt
AppendCommand ==
  /\ pc = "queue"
  /\ Len(command_file.lines) < MaxFileLines
  /\ \E l \in ExternalLines :
       command_file' = File(TRUE, Append(command_file.lines, l))
  /\ UNCHANGED <<pc, shutdown_requested, config_file, generated_cids,
                 has_ipfs, ipfs, repo, daemons, now, last_generated_time,
                 cmds, ops, last_ensure, pass, pub, loop_state, spawn_subproc,
                 spawn_subproc_executed, call>>

\* the operator removes commands.txt
RemoveCommandFile ==
  /\ pc = "queue"
  /\ command_file.exists
  /\ command_file' = File(FALSE, <<>>)
  /\ UNCHANGED <<pc, shutdown_requested, config_file, generated_cids,
                 has_ipfs, ipfs, repo, daemons, now, last_generated_time,
                 cmds, ops, last_ensure, pass, pub, loop_state, spawn_subproc,
                 spawn_subproc_executed, call>>

\* a daemon process the node spawned exits
DaemonExit ==
  /\ pc = "loop"
  /\ daemons > 0
  /\ daemons' = daemons - 1
  /\ UNCHANGED <<pc, shutdown_requested, config_file, command_file,
                 generated_cids, has_ipfs, ipfs, repo, now,
                 last_generated_time, cmds, ops, last_ensure, pass, pub,
                 loop_state, spawn_subproc, spawn_subproc_executed, call>>

\* line 320 when the operator appends a line to commands.txt while the pass
\* runs, after the read of lines 191-192 and before the rewrite of lines
\* 245-248 (the fetches in between take seconds): open(..., "w") truncates
\* the file and writes what the pass had read and retained; a pass that
\* returns at line 199 leaves the file, with the new line, as it is
ProcessCommandFileRaced(outcomes) ==
  /\ pc = "queue"
  /\ command_file.exists
  /\ Len(command_file.lines) < MaxFileLines
  /\ \E l \in ExternalLines :
     \E outs \in [1..Len(ParseLines(command_file.lines)) -> outcomes] :
       LET r == process_command_file(TRUE, outs)
           appended == File(TRUE, Append(command_file.lines, l))
       IN /\ command_file' = IF r.pass.kind = "rewritten" THEN r.file
                             ELSE appended
          /\ ipfs' = r.self
          /\ ops' = ops \cup {"process_command_file"} \cup r.ops
          /\ pass' = [r.pass EXCEPT !.appended = <<l>>]
  /\ pc' = "publish"
  /\ UNCHANGED <<shutdown_requested, config_file, generated_cids, has_ipfs,
                 repo, daemons, now, last_generated_time, cmds, last_ensure,
                 pub, loop_state, spawn_subproc, spawn_subproc_executed, call>>

\* the answers that end an entry in each of the ways lines 205-239 allow
QueueOutcomes ==
  { EntryOutcome("raise", TRUE, TRUE, <<>>, TRUE),
    EntryOutcome("False", TRUE, TRUE, <<>>, TRUE),
    EntryOutcome("True", TRUE, FALSE, <<>>, TRUE),
    EntryOutcome("True", TRUE, TRUE, <<TextName>>, TRUE),
    EntryOutcome("True", TRUE, TRUE, <<PickleName>>, FALSE) }

\* the answers of a daemon that serves every request
HealthyEntry == EntryOutcome("True", TRUE, TRUE, <<TextName>>, TRUE)
HealthyAdd == [dump_ok |-> TRUE, exit_ok |-> TRUE, output |-> <<"QmFile", "QmDir">>]
HealthyPublish == PublishOutcome(TRUE, "9f3a", HealthyAdd, TRUE)
HealthyPublishes ==
  { PublishOutcome(secured, "9f3a", HealthyAdd, TRUE) : secured \in BOOLEAN }

\* The node under an unreliable daemon tool and an operator who edits the
\* config file; the command file is as the process created it.
Next ==
  \/ EnsureStarted(StartOutcomes)
  \/ Exit
  \/ ProcessCommandFile({HealthyEntry})
  \/ GenerateStatusFile({HealthyPublish})
  \/ Sleep
  \/ HandleShutdown
  \/ EditConfig
  \/ DaemonExit

Spec == Init /\ [][Next]_vars

\* The same node when every blocking call of a cycle returns: each step of
\* the loop that can be taken is eventually taken.
SpecLive ==
  /\ Spec
  /\ WF_vars(ProcessCommandFile({HealthyEntry}))
  /\ WF_vars(GenerateStatusFile({HealthyPublish}))
  /\ WF_vars(Sleep)
  /\ WF_vars(Exit)

\* The node under a daemon tool that is unreliable during the cycles the
\* model follows to their sleep and answers every command from then on.
EnsureStartedUnreliable ==
  /\ now - StartTime < MaxCycles * CYCLE_INTERVAL
  /\ EnsureStarted(StartOutcomes)

EnsureStartedHealthy == EnsureStarted({HealthyStart})

NextConverge ==
  \/ EnsureStartedUnreliable
  \/ EnsureStartedHealthy
  \/ Exit
  \/ ProcessCommandFile({HealthyEntry})
  \/ GenerateStatusFile({HealthyPublish})
  \/ Sleep
  \/ HandleShutdown
  \/ EditConfig
  \/ DaemonExit

\* the loop goes on: the call of each cycle and its sleep return
SpecConverge ==
  /\ Init
  /\ [][NextConverge]_vars
  /\ WF_vars(EnsureStartedHealthy)
  /\ WF_vars(Sleep)

-----------------------------------------------------------------------------
(* A client of a started gateway object that calls its content operations  *)
(* one after the other, in any order, against a daemon that may fail, may  *)
(* print anything, or may answer as a content-addressed store does.        *)

\* files on the client's disk, with the CIDs a content-addressed daemon
\* gives to each file and to the directory that wraps it (add -w)
FileA ==
  [path |-> "/data/status.yaml", name |-> TextName, content |-> "alpha",
   cid |-> "QmFileA", dir_cid |-> "QmDirA"]
FileB ==
  [path |-> "/data/model.pkl", name |-> PickleName, content |-> "beta",
   cid |-> "QmFileB", dir_cid |-> "QmDirB"]
Files == {FileA, FileB}

DirCids == { f.dir_cid : f \in Files }
Wrapped(cid) == CHOOSE f \in Files : f.dir_cid = cid

\* the CIDs the client asks for
GatewayCids == DirCids

\* `ipfs add -q -w path` on a content-addressed daemon prints the CID of
\* the file and then the CID of the wrapping directory
FaithfulAdd(f) ==
  [dump_ok |-> TRUE, exit_ok |-> TRUE, output |-> <<f.cid, f.dir_cid>>]

GatewayAdds(f) == { a \in AddOutcomes : a.dump_ok } \cup {FaithfulAdd(f)}

\* `ipfs get cid -o folder` of a wrapping directory on such a daemon leaves
\* in the folder the one file that was wrapped, under its name
FaithfulGet(cid) ==
  EntryOutcome("True", TRUE, TRUE, <<Wrapped(cid).name>>, TRUE)

GatewayGets(cid) ==
  { EntryOutcome("True", FALSE, TRUE, <<>>, TRUE),
    EntryOutcome("True", TRUE, FALSE, <<>>, TRUE),
    EntryOutcome("True", TRUE, TRUE, <<>>, TRUE),
    EntryOutcome("True", TRUE, TRUE, <<TextName, PickleName>>, TRUE),
    EntryOutcome("True", TRUE, TRUE, <<TextName>>, TRUE) }
  \cup (IF cid \in DirCids THEN {FaithfulGet(cid)} ELSE {})

\* the content of the file a get left on disk
Fetched(cid, e) ==
  IF cid \in DirCids /\ e = FaithfulGet(cid) THEN Wrapped(cid).content
  ELSE "other"

GatewayAdd ==
  /\ pc = "gateway"
  /\ \E f \in Files : \E a \in GatewayAdds(f) :
       LET r == add_file(ipfs, f.path, a)
       IN /\ ipfs' = r.self
          /\ call' = [NoCall EXCEPT !.op = "add", !.file = f.path,
                                    !.answer = a, !.raised = r.raised,
                                    !.ret_cid = r.cid, !.ops = {"add"}]
  /\ UNCHANGED <<pc, shutdown_requested, config_file, command_file,
                 generated_cids, has_ipfs, repo, daemons, now,
                 last_generated_time, cmds, ops, last_ensure, pass, pub,
                 loop_state, spawn_subproc, spawn_subproc_executed>>

GatewayGet ==
  /\ pc = "gateway"
  /\ \E cid \in GatewayCids, pin_flag \in BOOLEAN :
     \E e \in GatewayGets(cid) :
       LET r == get_file(ipfs, cid, pin_flag, e)
       IN /\ ipfs' = r.self
          /\ call' = [NoCall EXCEPT !.op = "get", !.cid = cid,
                                    !.pin = pin_flag, !.answer = e,
                                    !.raised = r.raised, !.ret_path = r.path,
                                    !.content = IF r.raised THEN None
                                                ELSE Fetched(cid, e),
                                    !.ops = r.ops]
  /\ UNCHANGED <<pc, shutdown_requested, config_file, command_file,
                 generated_cids, has_ipfs, repo, daemons, now,
                 last_generated_time, cmds, ops, last_ensure, pass, pub,
                 loop_state, spawn_subproc, spawn_subproc_executed>>

GatewayPin ==
  /\ pc = "gateway"
  /\ \E cid \in GatewayCids, exit_ok \in BOOLEAN :
       LET r == pin_add(ipfs, cid, exit_ok)
       IN /\ ipfs' = r.self
          /\ call' = [NoCall EXCEPT !.op = "pin", !.cid = cid,
                                    !.raised = r.raised, !.ops = r.ops]
  /\ UNCHANGED <<pc, shutdown_requested, config_file, command_file,
                 generated_cids, has_ipfs, repo, daemons, now,
                 last_generated_time, cmds, ops, last_ensure, pass, pub,
                 loop_state, spawn_subproc, spawn_subproc_executed>>

GatewayListPins ==
  /\ pc = "gateway"
  /\ \E exit_ok \in BOOLEAN, output \in PinListings :
       LET r == list_pins(ipfs, exit_ok, output)
       IN /\ ipfs' = r.self
          /\ call' = [NoCall EXCEPT !.op = "list", !.raised = r.raised,
                                    !.ret_pins = r.pins, !.ops = {"list"}]
  /\ UNCHANGED <<pc, shutdown_requested, config_file, command_file,
                 generated_cids, has_ipfs, repo, daemons, now,
                 last_generated_time, cmds, ops, last_ensure, pass, pub,
                 loop_state, spawn_subproc, spawn_subproc_executed>>

\* the object after a bring-up that went through
InitGateway ==
  LET st == maybe_start_ipfs(NewIPFSWrapper, KeyB64, Relay,
                             [initialized |-> FALSE, swarm_key |-> FALSE],
                             0, HealthyStart)
  IN /\ pc = "gateway"
     /\ shutdown_requested = FALSE
     /\ config_file = Config("ok", KeyB64, Relay)
     /\ command_file = File(TRUE, <<HeaderLine>>)
     /\ generated_cids = <<>>
     /\ has_ipfs = TRUE
     /\ ipfs = st.self
     /\ repo = st.repo
     /\ daemons = st.daemons
     /\ now = StartTime
     /\ last_generated_time = 0
     /\ cmds = st.cmds
     /\ ops = {}
     /\ last_ensure = NoEnsure
     /\ pass = NoPass
     /\ pub = "none"
     /\ loop_state = "RUNNING"
     /\ spawn_subproc = FALSE
     /\ spawn_subproc_executed = FALSE
     /\ call = NoCall

NextGateway ==
  \/ GatewayAdd
  \/ GatewayGet
  \/ GatewayPin
  \/ GatewayListPins

SpecGateway == InitGateway /\ [][NextGateway]_vars

\* The node with the daemon brought up at the first attempt, under an
\* operator who edits the command file and a swarm that may or may not serve
\* the CIDs asked for; no signal arrives.
InitStarted ==
  /\ pc = "loop"
  /\ shutdown_requested = FALSE
  /\ config_file = Config("ok", KeyB64, Relay)
  /\ generated_cids = <<>>
  /\ has_ipfs = FALSE
  /\ ipfs = NewIPFSWrapper
  /\ repo \in Repos
  /\ daemons = 0
  /\ now = StartTime
  /\ last_generated_time = 0
  /\ cmds = <<>>
  /\ ops = {}
  /\ last_ensure = NoEnsure
  /\ pass = NoPass
  /\ pub = "none"
  /\ loop_state = "WAITING_FOR_CONFIG"
  /\ spawn_subproc_executed = FALSE
  /\ call = NoCall

InitQueue ==
  /\ InitStarted
  /\ command_file \in {File(TRUE, <<HeaderLine>>),
                       File(TRUE, <<HeaderLine, NoteLine>>)}
  /\ spawn_subproc = FALSE

NextQueue ==
  \/ EnsureStarted({HealthyStart})
  \/ ProcessCommandFile(QueueOutcomes)
  \/ GenerateStatusFile({HealthyPublish})
  \/ Sleep
  \/ AppendCommand
  \/ RemoveCommandFile

SpecQueue == InitQueue /\ [][NextQueue]_vars

\* the answers of a swarm that serves a CID or does not have it
RaceOutcomes == { EntryOutcome("False", TRUE, TRUE, <<>>, TRUE), HealthyEntry }

\* The same node when the operator also writes to the command file while a
\* pass is in progress.
NextRace ==
  \/ EnsureStarted({HealthyStart})
  \/ ProcessCommandFile(RaceOutcomes)
  \/ ProcessCommandFileRaced(RaceOutcomes)
  \/ GenerateStatusFile({HealthyPublish})
  \/ Sleep
  \/ AppendCommand

SpecRace == InitQueue /\ [][NextRace]_vars

\* The node with the daemon brought up at the first attempt, whose add may
\* fail or print anything.
NextPublish ==
  \/ EnsureStarted({HealthyStart})
  \/ Exit
  \/ ProcessCommandFile({HealthyEntry})
  \/ GenerateStatusFile(PublishOutcomes)
  \/ Sleep
  \/ SlowCycle
  \/ HandleShutdown

InitPublish ==
  /\ InitStarted
  /\ command_file = File(TRUE, <<HeaderLine>>)
  /\ spawn_subproc \in BOOLEAN

SpecPublish == InitPublish /\ [][NextPublish]_vars

\* The node with the daemon brought up at the first attempt and every add
\* succeeding, its cycles short or long.
NextClock ==
  \/ EnsureStarted({HealthyStart})
  \/ ProcessCommandFile({HealthyEntry})
  \/ GenerateStatusFile(HealthyPublishes)
  \/ Sleep
  \/ SlowCycle

SpecClock == InitPublish /\ [][NextClock]_vars

-----------------------------------------------------------------------------
(* Properties of the daemon lifecycle and of the loop, under Spec *)

\* the step of the loop that calls maybe_check_and_start_ipfs
EnsureStep == pc = "loop" /\ pc' \notin {"loop", "done"}

\* C1: once ensure_started has reported started, a later call returns
\* started, issues no daemon command (no swarm-key write, init, bootstrap
\* removal, identity probe, daemon spawn, relay connect) and leaves the
\* daemon state and the content records as they were.
C1_StartedCallIsNoOp ==
  [][ (EnsureStep /\ loop_state = "RUNNING") =>
        /\ last_ensure'.result
        /\ pc' = "queue"
        /\ cmds' = <<>>
        /\ has_ipfs' = has_ipfs /\ ipfs' = ipfs
        /\ repo' = repo /\ daemons' = daemons ]_vars

\* a cycle of a started node: the call returned by the fast path
C1_Witness ==
  /\ pc = "queue" /\ last_ensure.path = "already_started"
  /\ loop_state = "RUNNING" /\ now > StartTime

\* C2: started, once true, stays true, and the loop, once RUNNING, is never
\* WAITING_FOR_CONFIG again, whatever becomes of the config file and of the
\* daemon.
C2_StartedIsStable ==
  [][ /\ (has_ipfs /\ ipfs.started) => (has_ipfs' /\ ipfs'.started)
      /\ loop_state = "RUNNING" => loop_state' = "RUNNING" ]_vars

\* a started node whose config file is gone at a later call, with no daemon
\* process of its own left
C2_Witness ==
  /\ pc = "queue" /\ last_ensure.path = "already_started"
  /\ config_file.kind = "missing" /\ loop_state = "RUNNING"

C3_IdentityOk(c) ==
  \E i \in 1..Len(c) : c[i].cmd = "get_id" /\ c[i].res = "ok"

C3_ConnectSaidSuccess(c) ==
  \E i \in 1..Len(c) :
    /\ c[i].cmd = "connect" /\ c[i].res = "returned"
    /\ {"connect", "success"} \subseteq c[i].words

\* C3: started becomes true only in an attempt whose identity query
\* succeeded and whose connect command returned a text indicating success;
\* an attempt without both leaves started false.
C3_StartedOnlyOnSuccess ==
  [][ EnsureStep =>
        ((has_ipfs' /\ ipfs'.started /\ ~(has_ipfs /\ ipfs.started))
           => (C3_IdentityOk(cmds') /\ C3_ConnectSaidSuccess(cmds'))) ]_vars

\* an attempt that ended started
C3_Witness ==
  /\ last_ensure.path = "bring_up" /\ last_ensure.result /\ ipfs.started
  /\ C3_ConnectSaidSuccess(cmds)

C5_ConfigLacking ==
  \/ config_file.kind \in {"missing", "nosection"}
  \/ /\ config_file.kind = "ok"
     /\ (config_file.key \in {None, ""} \/ config_file.relay \in {None, ""})

-----------------------------------------------------------------------------
(* Properties of the command queue, under SpecQueue.  `pass` holds, from   *)
(* the end of process_command_file to the end of the cycle's publish, the  *)
(* entries the pass parsed and how the processing of each one ended.       *)

AfterPass == pc = "publish" /\ pass.kind # "none"

\* the entries of the pass whose CID was reported unavailable, in order
Retained ==
  LET idx == { i \in 1..Len(pass.entries) : pass.log[i] = "unavailable" }
      RECURSIVE Pick(_)
      Pick(i) == IF i > Len(pass.entries) THEN <<>>
                 ELSE IF i \in idx THEN <<pass.entries[i]>> \o Pick(i + 1)
                 ELSE Pick(i + 1)
  IN Pick(1)

InFile(line) ==
  \E j \in 1..Len(command_file.lines) :
    /\ Split(command_file.lines[j]) = Split(line)
    /\ EntryCid(command_file.lines[j]) = EntryCid(line)
    /\ EntrySecret(command_file.lines[j]) = EntrySecret(line)

\* C6: after a pass every entry it parsed was either fetched or has its
\* line in the rewritten queue file, entries whose availability check or
\* fetch raised an exception included.
C6_NoEntryLost ==
  (AfterPass /\ pass.kind = "rewritten") =>
    \A i \in 1..Len(pass.entries) :
      \/ i <= Len(pass.log) /\ pass.log[i] \in {"fetched", "fetched_then_raised"}
      \/ InFile(pass.entries[i])

\* a pass in which an availability check raised
C6_Witness ==
  /\ AfterPass /\ pass.kind = "rewritten"
  /\ \E i \in 1..Len(pass.log) : pass.log[i] = "avail_raised"

\* C7: after a pass the queue file holds, after its header, the lines of the
\* entries whose CID was reported unavailable, each with its cid and its
\* secret, and no line of an entry that was fetched (unless the same line
\* was also an entry reported unavailable in that pass).
C7_UnavailableKeptFetchedDropped ==
  (AfterPass /\ pass.kind = "rewritten") =>
    /\ Len(pass.log) = Len(pass.entries)
    /\ command_file.exists
    /\ command_file.lines = <<HeaderLine>> \o Retained
    /\ \A i \in 1..Len(pass.entries) :
         /\ pass.log[i] = "unavailable" => InFile(pass.entries[i])
         /\ ( /\ pass.log[i] = "fetched"
              /\ ~\E k \in 1..Len(pass.entries) :
                    /\ pass.entries[k] = pass.entries[i]
                    /\ pass.log[k] = "unavailable" )
              => ~InFile(pass.entries[i])

\* a pass with a secret-bearing line kept and another line fetched
C7_Witness ==
  /\ AfterPass /\ pass.kind = "rewritten" /\ Len(pass.log) = 2
  /\ \E i, k \in 1..2 :
       /\ pass.log[i] = "unavailable" /\ EntrySecret(pass.entries[i]) = "key2"
       /\ pass.log[k] = "fetched"
  /\ Len(command_file.lines) = 2

\* C8: an exception in the availability check, the fetch or the handling of
\* the fetched file of one entry does not stop the pass: every parsed entry
\* has its availability check, and the file is rewritten at the end.
C8_ExceptionIsolated ==
  (AfterPass /\ pass.kind = "rewritten") =>
    /\ Len(pass.log) = Len(pass.entries)
    /\ "is_cid_available" \in ops
    /\ command_file.exists
    /\ command_file.lines[1] = HeaderLine
    /\ \A j \in 2..Len(command_file.lines) :
         \E i \in 1..Len(pass.log) :
           pass.log[i] = "unavailable" /\ pass.entries[i] = command_file.lines[j]

\* a pass whose first entry raised and whose second entry went through the
\* availability check and was kept
C8_Witness ==
  /\ AfterPass /\ pass.kind = "rewritten" /\ Len(pass.log) = 2
  /\ pass.log[1] \in {"avail_raised", "fetch_raised", "fetched_then_raised"}
  /\ pass.log[2] = "unavailable"
  /\ Len(command_file.lines) = 2

\* C9: after every pass that could read the file, a pass that found no
\* entries included, the queue file is the header followed by the lines
\* retained in the pass and nothing else.
C9_FileIsHeaderPlusRetained ==
  (AfterPass /\ pass.kind \in {"no_file", "no_entries", "rewritten"}) =>
    /\ command_file.exists
    /\ command_file.lines = <<HeaderLine>> \o Retained

\* a pass over a file that holds a comment and no entry
C9_Witness ==
  /\ AfterPass /\ pass.kind = "no_entries"
  /\ command_file.lines = <<HeaderLine, NoteLine>>

-----------------------------------------------------------------------------
(* Properties of the status publish, under SpecPublish *)

PublishStep == pc = "publish" /\ pc' = "sleep"

\* C10: a due publish that fails at serialization or at the add leaves the
\* last-published timestamp as it was.
C10_FailureKeepsTimestamp ==
  [][ (PublishStep /\ pub' = "failed")
        => last_generated_time' = last_generated_time ]_vars

\* the cycle after a failed publish returned early from the publish
C10_Witness ==
  /\ pc = "sleep" /\ pub = "not_due"
  /\ generated_cids = <<>> /\ last_generated_time = StartTime

\* the window of line 262
C11_MinInterval == CYCLE_INTERVAL * PUBLISH_CYCLES

C11_Due ==
  \/ last_generated_time = 0
  \/ now - last_generated_time >= C11_MinInterval

\* C11: with succeeding adds, the first maybe_publish and every call made
\* once min_interval has elapsed since the last publish perform exactly one
\* serialize+add (and become the last publish); a call made sooner performs
\* none.
C11_OnePublishPerInterval ==
  [][ PublishStep =>
        /\ C11_Due =>
             /\ "add" \in ops'
             /\ Len(generated_cids') = Len(generated_cids) + 1
             /\ DOMAIN ipfs'.uploaded # {}
             /\ last_generated_time' = now
        /\ ~C11_Due =>
             /\ "add" \notin ops'
             /\ generated_cids' = generated_cids
             /\ ipfs' = ipfs
             /\ last_generated_time' = last_generated_time ]_vars

\* a second publish, one full interval after the first, after a call in
\* between that published nothing
C11_Witness ==
  /\ pc = "sleep" /\ Len(generated_cids) = 2
  /\ now = StartTime + CYCLE_INTERVAL + C11_MinInterval
  /\ last_generated_time = now

\* the ledger grew by one line in this step
C12_Appended ==
  /\ Len(generated_cids') = Len(generated_cids) + 1
  /\ SubSeq(generated_cids', 1, Len(generated_cids)) = generated_cids

\* the CID of the line just appended
C12_NewCid == generated_cids'[Len(generated_cids')][1]

\* a publish that got past the test of line 297
C12_GotCid == PublishStep /\ "add" \in ops' /\ pub' \notin {"failed", "not_due"}

-----------------------------------------------------------------------------
(* Properties of shutdown and of the loop's survival, under SpecLive/Spec *)

\* C13: once a signal has set the flag it is never cleared; the cycle in
\* progress goes on step by step (queue pass, publish, sleep) to the loop
\* test; no further cycle is begun; and, the blocking calls returning, the
\* loop terminates.
C13_CooperativeShutdown ==
  /\ [][ shutdown_requested =>
           /\ shutdown_requested'
           /\ pc = "loop" => pc' \in {"loop", "done"}
           /\ pc = "queue" =>
                \/ pc' = "queue"
                \/ pc' = "publish" /\ "process_command_file" \in ops'
           /\ pc = "publish" =>
                \/ pc' = "publish"
                \/ pc' = "sleep" /\ "maybe_generate_status_file" \in ops'
           /\ pc = "sleep" => pc' \in {"sleep", "loop"}
           /\ pc = "done" => pc' = "done" ]_vars
  /\ shutdown_requested ~> (pc = "done")

\* the loop ended after a signal that arrived in a cycle of a running node
C13_Witness ==
  /\ pc = "done" /\ shutdown_requested
  /\ loop_state = "RUNNING" /\ pub = "published" /\ now > StartTime

\* C14: no failure inside a cycle (config read, bring-up step, availability
\* check, fetch, publish) ends the loop: wherever the loop has ended, a
\* shutdown had been requested.
C14_OnlyShutdownEndsLoop ==
  pc \in {"done", "crashed"} => shutdown_requested

\* the loop gone with no shutdown requested
C14_Witness ==
  /\ pc = "crashed" /\ ~shutdown_requested
  /\ last_ensure.path = "raised" /\ config_file.relay = RelayPct

-----------------------------------------------------------------------------
(* Properties of the gateway's content operations, under SpecGateway.      *)
(* `call` holds the call just made: its arguments, what the daemon         *)
(* answered, and what the call returned.                                   *)

\* a get whose pin (if asked for) and whose fetch command went through
C15_Fetched ==
  /\ call'.op = "get"
  /\ call'.pin => call'.answer.pin_ok
  /\ call'.answer.get_ok

\* C15: when the fetched per-CID folder holds zero, two or more entries,
\* get raises, returns no path and leaves the downloaded record as it was.
C15_ShapeErrorRecordsNothing ==
  [][ (C15_Fetched /\ Len(call'.answer.folder) # 1) =>
        /\ call'.raised
        /\ call'.ret_path = <<>>
        /\ ipfs'.downloaded = ipfs.downloaded ]_vars

\* a get that found two files in the folder of a CID never fetched before
C15_Witness ==
  /\ call.op = "get" /\ call.raised /\ call.answer.get_ok
  /\ call.pin /\ call.answer.pin_ok
  /\ Len(call.answer.folder) = 2
  /\ call.cid \notin DOMAIN ipfs.downloaded

\* C16: for an add whose command printed one, two, three or more lines, add
\* returns the last line and records it in uploaded as the key of the
\* given path; no other line becomes a key.
C16_AddTakesLastLine ==
  [][ (call'.op = "add" /\ call'.answer.exit_ok /\ call'.answer.output # <<>>) =>
        LET out == call'.answer.output
        IN /\ ~call'.raised
           /\ call'.ret_cid = out[Len(out)]
           /\ DOMAIN ipfs'.uploaded = DOMAIN ipfs.uploaded \cup {out[Len(out)]}
           /\ ipfs'.uploaded[out[Len(out)]] = call'.file ]_vars

\* an add whose command printed three lines
C16_Witness ==
  /\ call.op = "add" /\ ~call.raised /\ Len(call.answer.output) = 3
  /\ call.ret_cid = "QmDir2" /\ ipfs.uploaded["QmDir2"] = call.file
  /\ "QmMid" \notin DOMAIN ipfs.uploaded

\* C17: a failing pin command is not fatal: a get with pin=true whose pin
\* command exits non-zero still attempts the fetch, and pin does not raise
\* to its caller.
C17_PinFailureNotFatal ==
  [][ /\ (call'.op = "get" /\ call'.pin /\ ~call'.answer.pin_ok)
         => "get" \in call'.ops
      /\ call'.op = "pin" => ~call'.raised ]_vars

\* a get that stopped at its failing pin
C17_Witness ==
  /\ call.op = "get" /\ call.pin /\ ~call.answer.pin_ok /\ call.answer.get_ok
  /\ call.raised /\ call.ops = {"pin"}

\* C18: against a content-addressed daemon, add(path) returns the CID of the
\* wrapping directory and records it in uploaded; a later get of that CID
\* succeeds and yields one file, with the name and the content of the
\* original, recorded in downloaded.
C18_RoundTrip ==
  [][ /\ \A f \in Files :
           (call'.op = "add" /\ call'.file = f.path
              /\ call'.answer = FaithfulAdd(f)) =>
             /\ ~call'.raised
             /\ call'.ret_cid = f.dir_cid
             /\ f.dir_cid \in DOMAIN ipfs'.uploaded
             /\ ipfs'.uploaded[f.dir_cid] = f.path
      /\ \A f \in Files :
           (call'.op = "get" /\ call'.cid = f.dir_cid
              /\ f.dir_cid \in DOMAIN ipfs.uploaded
              /\ ipfs.uploaded[f.dir_cid] = f.path
              /\ call'.answer = FaithfulGet(f.dir_cid)) =>
             /\ ~call'.raised
             /\ Len(call'.answer.folder) = 1
             /\ call'.ret_path = <<f.dir_cid, f.name>>
             /\ call'.content = f.content
             /\ f.dir_cid \in DOMAIN ipfs'.downloaded
             /\ ipfs'.downloaded[f.dir_cid] = call'.ret_path
             /\ ipfs'.uploaded = ipfs.uploaded ]_vars

\* the binary file added and fetched back
C18_Witness ==
  /\ call.op = "get" /\ ~call.raised /\ call.cid = FileB.dir_cid
  /\ call.ret_path = <<FileB.dir_cid, FileB.name>>
  /\ call.content = FileB.content
  /\ FileB.dir_cid \in DOMAIN ipfs.uploaded
  /\ ipfs.uploaded[FileB.dir_cid] = FileB.path
  /\ FileB.dir_cid \in DOMAIN ipfs.downloaded

\* C19: the uploaded and downloaded records only grow: whatever call is
\* made, every CID recorded before is recorded after; a call that raises,
\* a pin and a listing leave both records as they were.
C19_RecordsOnlyGrow ==
  [][ /\ DOMAIN ipfs.uploaded \subseteq DOMAIN ipfs'.uploaded
      /\ DOMAIN ipfs.downloaded \subseteq DOMAIN ipfs'.downloaded
      /\ (call'.raised \/ call'.op \in {"pin", "list"}) =>
           /\ ipfs'.uploaded = ipfs.uploaded
           /\ ipfs'.downloaded = ipfs.downloaded
      /\ call'.op = "add" => ipfs'.downloaded = ipfs.downloaded
      /\ call'.op = "get" => ipfs'.uploaded = ipfs.uploaded ]_vars

\* a failing get after several adds and a get were recorded
C19_Witness ==
  /\ call.op = "get" /\ call.raised
  /\ Cardinality(DOMAIN ipfs.uploaded) >= 3
  /\ Cardinality(DOMAIN ipfs.downloaded) = 2

-----------------------------------------------------------------------------
(* The ledger line, under SpecPublish *)

\* C20: every ledger line is "<cid> <secret-or-empty>": its second part is
\* the snapshot's secret or is empty, so that the line read as a command
\* queue entry has that secret or none.
C20_LedgerLineForm ==
  \A i \in 1..Len(generated_cids) :
    /\ generated_cids[i][2] \in Secrets \cup {""}
    /\ EntrySecret(generated_cids[i]) \in Secrets \cup {None}

\* the line of a snapshot that was not secured
C20_Witness ==
  /\ pc = "sleep" /\ pub = "published" /\ Len(generated_cids) = 1
  /\ generated_cids[1] = <<"QmDir", "None">>
  /\ EntrySecret(generated_cids[1]) = "None"

-----------------------------------------------------------------------------
(* Properties of the bring-up steps, under Spec.  `cmds` holds, from the   *)
(* call of maybe_check_and_start_ipfs to the end of the cycle, the commands *)
(* the attempt issued, in order, each with how it ended.                   *)

\* C21: in a bring-up attempt init is issued only when the repository's
\* config file is absent and only after the swarm key was written in that
\* attempt; a failure of the key write or of init ends the attempt: no later
\* step is executed and started stays false.
C21_InitOnlyAfterKeyAndFailureEnds ==
  [][ EnsureStep =>
        \A i \in 1..Len(cmds') :
          /\ cmds'[i].cmd = "init" =>
               /\ ~repo.initialized
               /\ \E j \in 1..(i - 1) :
                    cmds'[j].cmd = "swarm_key" /\ cmds'[j].res = "ok"
          /\ (cmds'[i].cmd \in {"swarm_key", "init"} /\ cmds'[i].res = "fail") =>
               /\ i = Len(cmds')
               /\ ~ipfs'.started
               /\ ~last_ensure'.result
               /\ daemons' = daemons ]_vars

\* an attempt on an uninitialized repository whose init failed after the key
\* was written
C21_Witness ==
  /\ pc = "sleep" /\ last_ensure.path = "bring_up"
  /\ Len(cmds) = 2
  /\ cmds[1].cmd = "swarm_key" /\ cmds[1].res = "ok"
  /\ cmds[2].cmd = "init" /\ cmds[2].res = "fail"
  /\ repo.swarm_key /\ ~repo.initialized /\ ~ipfs.started

\* C22: whenever the attempt spawns the daemon process, bootstrap removal
\* has completed successfully earlier in that attempt.
C22_SpawnOnlyAfterBootstrapRm ==
  \A i \in 1..Len(cmds) :
    (cmds[i].cmd = "daemon" /\ cmds[i].res = "ok") =>
      \E j \in 1..(i - 1) : cmds[j].cmd = "bootstrap_rm" /\ cmds[j].res = "ok"

\* an attempt that spawned the daemon after a failed bootstrap removal
C22_Witness ==
  /\ last_ensure.path = "bring_up" /\ daemons > 0
  /\ \E i \in 1..Len(cmds) :
       /\ cmds[i].cmd = "daemon" /\ cmds[i].res = "ok"
       /\ \E j \in 1..(i - 1) :
            cmds[j].cmd = "bootstrap_rm" /\ cmds[j].res = "fail"

\* C23: in every reachable state started implies that the peer id, the
\* multiaddress and the agent version are set, non-empty, and not the
\* "Unknown" placeholder.
C23_StartedHasIdentity ==
  (has_ipfs /\ ipfs.started) =>
    /\ ipfs.id \notin {None, "", ERROR_TAG}
    /\ ipfs.address \notin {None, "", ERROR_TAG}
    /\ ipfs.agent \notin {None, "", ERROR_TAG}

\* a started node whose identity query answered without an agent version
C23_Witness ==
  /\ has_ipfs /\ ipfs.started /\ loop_state = "RUNNING"
  /\ ipfs.id = Peer /\ ipfs.agent = ERROR_TAG

\* C24: when a bring-up attempt ended without started, the next attempt
\* operates on the same gateway object: the identity fields it had already
\* obtained are retained, the object is not replaced by an empty one.
C24_SameObjectAcrossAttempts ==
  [][ (EnsureStep /\ has_ipfs /\ ~ipfs.started) =>
        /\ has_ipfs'
        /\ ipfs.id # None => ipfs'.id # None
        /\ ipfs.address # None => ipfs'.address # None
        /\ ipfs.agent # None => ipfs'.agent # None ]_vars

\* the start of a cycle after an attempt that obtained the identity and then
\* failed at the relay
C24_Witness ==
  /\ pc = "loop" /\ now > StartTime /\ ~shutdown_requested
  /\ has_ipfs /\ ~ipfs.started
  /\ ipfs.id = Peer /\ ipfs.address = Addr1 /\ ipfs.agent = Agent
  /\ ConfigComplete(config_file) /\ ~GetRaises(config_file)

\* C28: an attempt spawns a daemon process only when its identity probe
\* failed, and never while a daemon spawned in an earlier attempt is still
\* alive.
C28_NoSecondDaemon ==
  [][ (EnsureStep /\ daemons' > daemons) =>
        /\ \E i \in 1..Len(cmds') :
             cmds'[i].cmd = "probe" /\ cmds'[i].res = "fail"
        /\ daemons = 0 ]_vars

\* two daemon processes of this node alive at once
C28_Witness ==
  /\ last_ensure.path = "bring_up" /\ daemons = 2 /\ now > StartTime
  /\ \E i \in 1..Len(cmds) : cmds[i].cmd = "daemon" /\ cmds[i].res = "ok"

-----------------------------------------------------------------------------
(* Convergence of the bring-up, under SpecConverge *)

\* the config file holds both fields, and no shutdown was requested
C25_ConfigHeld ==
  /\ config_file = Config("ok", KeyB64, Relay)
  /\ ~shutdown_requested

\* C25: if from some cycle on the config file holds both required fields
\* and every daemon command succeeds, and no shutdown is requested, the loop
\* eventually reaches RUNNING, whatever earlier attempts failed at and
\* whatever they left behind (key written, repository initialized, daemon
\* spawned).
C25_BringUpConverges ==
  []([]C25_ConfigHeld => <>(loop_state = "RUNNING" /\ has_ipfs /\ ipfs.started))

\* RUNNING reached in a later cycle, on a repository an earlier attempt had
\* initialized and with a daemon an earlier attempt had spawned
C25_Witness ==
  /\ loop_state = "RUNNING" /\ ipfs.started /\ now > StartTime
  /\ last_ensure.path = "bring_up"
  /\ daemons > 0
  /\ \A i \in 1..Len(cmds) : cmds[i].cmd \notin {"swarm_key", "init", "daemon"}

-----------------------------------------------------------------------------
(* Properties of add on an empty output, under SpecGateway *)

\* C26: an add whose command printed nothing raises, returns no CID and
\* records nothing; the empty string is never a key of uploaded and never
\* returned as a CID.
C26_EmptyOutputRaises ==
  /\ "" \notin DOMAIN ipfs.uploaded
  /\ call.op = "add" =>
       /\ call.ret_cid # ""
       /\ (call.answer.exit_ok /\ call.answer.output = <<>>) =>
            (call.raised /\ call.ret_cid = None)

\* an add whose command exited with 0 and printed nothing
C26_Witness ==
  /\ call.op = "add" /\ call.answer.exit_ok /\ call.answer.output = <<>>
  /\ ~call.raised /\ call.ret_cid = ""
  /\ "" \in DOMAIN ipfs.uploaded /\ ipfs.uploaded[""] = call.file

-----------------------------------------------------------------------------
(* Properties of a pass that races with an external writer, under SpecRace *)

\* C27: an entry appended to the queue file by an external writer while a
\* pass is in progress (after the pass has read the file, before it
\* rewrites it) is not lost: after the pass it is still in the file, to be
\* processed by a later pass, or the pass fetched an entry of the same text.
C27_AppendDuringPassNotLost ==
  AfterPass =>
    \A i \in 1..Len(pass.appended) :
      \/ InFile(pass.appended[i])
      \/ \E k \in 1..Len(pass.entries) :
           /\ pass.entries[k] = Strip(pass.appended[i])
           /\ pass.log[k] \in {"fetched", "fetched_then_raised"}

\* a pass that fetched its one entry while another entry was appended
C27_Witness ==
  /\ AfterPass /\ pass.kind = "rewritten"
  /\ pass.entries = << <<"bafy2", "key2">> >> /\ pass.log = <<"fetched">>
  /\ pass.appended = << <<"bafy1">> >>
  /\ command_file = File(TRUE, <<HeaderLine>>)

====
